---- MODULE Spec2Model ----
(***************************************************************************)
(* Decision engine and trading loop of guochenglai/quant.                  *)
(*                                                                         *)
(* Signals and confidences are Python floats in the source.  They are kept *)
(* here as integers counted in hundredths (0.1 is 10, 0.7 is 70, 1.0 is    *)
(* 100); on that grid the float arithmetic of get_action (the products,    *)
(* min, abs and the round-half-to-even of round()) is exact.               *)
(* Quantities (positions, targets, order sizes) are whole shares.          *)
(***************************************************************************)
EXTENDS Integers, Sequences, FiniteSets, TLC

(***************************************************************************)
(* Bounds of the model.                                                    *)
(***************************************************************************)
\* largest long position handed to get_action
MaxPos == 12
\* largest short position handed to get_action (positions are signed)
MaxShort == 2
\* largest magnitude of the policy output, in hundredths
MaxSignal == 100

\* calls made on one FutuClient
MaxFutuCalls == 3

\* configure_logger and get_logger calls made in one process
MaxLoggerCalls == 3

\* order calls made on one PaperTradingClient
MaxOrderCalls == 2

(***************************************************************************)
(* Constants of the program, in hundredths where they are floats.          *)
(***************************************************************************)
\* the 1.0 that caps the confidence
One == 100
\* action_value > 0.1 is BUY, action_value < -0.1 is SELL
SignalThreshold == 10
\* the 10 of round(10 * confidence * action_value)
SizeMultiplier == 10
\* abs(action_value) * 2
ConfidenceSlope == 2
\* fallback strategy: current_position > 10 considers selling
FallbackPositionLimit == 10
\* fallback confidences 0.6 (SELL), 0.5 (BUY), 0.3 (HOLD)
FallbackSellConfidence == 60
FallbackBuyConfidence == 50
FallbackHoldConfidence == 30
\* the 0.7 of "confidence > 0.7" in the trading loop
ConfidenceGate == 70
\* market hours, US/Eastern
MARKET_OPEN_HOUR == 9
MARKET_OPEN_MINUTE == 30
MARKET_CLOSE_HOUR == 16
MARKET_CLOSE_MINUTE == 0
\* now.weekday() > 4 is the weekend (0 is Monday)
LastWeekday == 4

VARIABLES
    \* one get_action call, taken on its own
    call,       \* the arguments and receiver state of the call
    ret,        \* what the call returned (done is FALSE before the call)
    predicted,  \* what self.model.predict did in that call, when called
    \* main(): the trading loop
    pc,         \* where main() stands in its while loop
    now,        \* datetime.now(eastern) as is_market_open last read it
    symbols,    \* the local variable symbols of main()
    model,      \* whether decision_engine.model is loaded
    market_data,    \* the dict get_market_data builds and returns
    portfolio,  \* the local variable portfolio of main()
    idx,        \* index of the running for loop, from 1
    \* what the running iteration has done so far (history, not program state)
    tradable_asked, \* symbols is_tradeable was called for
    positions_asked,    \* symbols get_positions was called for
    decisions,  \* the get_action results, by symbol
    orders,     \* the market orders submitted, in order
    snapshot_calls, \* what the latest get_symbol_details call did, by symbol
    reported,   \* what get_positions found, by symbol
    caught,     \* the exceptions caught and logged, by handler and symbol
    unpaced,    \* a provider call was made and no sleep was taken since
    \* a FutuClient and the calls made on it
    futu,       \* the fields quote_context, trade_context, trade_password
    futu_trace, \* each call: the server operations it issued and its result
    \* quant.logger and the logging module
    configured_loggers, \* the module-level dict _configured_loggers
    logging_registry,   \* the loggers of logging.getLogger, by name
    logger_trace,       \* each configure_logger or get_logger call and its result
    \* a PaperTradingClient
    order_requests      \* each order call, the request it built and its result

engineVars == <<call, ret, predicted>>

loopVars ==
    <<pc, now, symbols, model, market_data, portfolio, idx, tradable_asked,
      positions_asked, decisions, orders, snapshot_calls, reported, caught,
      unpaced>>

clientVars ==
    <<futu, futu_trace, configured_loggers, logging_registry, logger_trace,
      order_requests>>

vars == <<engineVars, loopVars, clientVars>>

(***************************************************************************)
(* Python helpers.                                                         *)
(***************************************************************************)
Abs(x) == IF x < 0 THEN -x ELSE x

Min(a, b) == IF a < b THEN a ELSE b

Max(a, b) == IF a > b THEN a ELSE b

\* Python 3 round() of the rational n / d (d > 0): nearest integer, ties to
\* the even one.
Round(n, d) ==
    LET q == n \div d
        r == n % d
    IN  IF 2 * r < d THEN q
        ELSE IF 2 * r > d THEN q + 1
        ELSE IF q % 2 = 0 THEN q ELSE q + 1

(***************************************************************************)
(* Values.                                                                 *)
(***************************************************************************)
\* An optional number: Python's None, or a number.
None == [some |-> FALSE, v |-> 0]

Some(x) == [some |-> TRUE, v |-> x]

\* mutant of Falsy: the test "price is None" in place of "not price"
Falsy_NoneOnly(x) == ~x.some

\* bool(x) is False for None and for 0
Falsy(x) == ~x.some \/ x.v = 0

\* The market_data argument of get_action.  shape "dict" is a well-formed
\* snapshot; "no_price_key" is a dict without the 'price' key; "bad_volume" is
\* a dict whose volume is not a number; "not_a_dict" is an object without
\* .get (a malformed snapshot).
SnapshotShapes == {"dict", "no_price_key", "bad_volume", "not_a_dict"}

Prices == {None, Some(0), Some(150), Some(-5)}

Volumes == {None, Some(1000000)}

Snapshots ==
    {sn \in [shape : SnapshotShapes, price : Prices, volume : Volumes] :
        /\ sn.shape = "no_price_key" => sn.price = None
        /\ sn.shape = "bad_volume" => sn.volume = None
        /\ sn.shape = "not_a_dict" => sn.price = None /\ sn.volume = None}

Positions == (-MaxShort) .. MaxPos

Signals == (-MaxSignal) .. MaxSignal

\* What self.model.predict does when it is called: it raises, or it returns
\* an action value.
PredictOutcomes ==
    {[raises |-> TRUE, signal |-> 0]} \cup
    {[raises |-> FALSE, signal |-> s] : s \in Signals}

Engines == {"DecisionEngine", "FinRLClient"}

Calls ==
    [engine : Engines, model : BOOLEAN, snapshot : Snapshots,
     current_position : Positions]

(***************************************************************************)
(* get_action.  The body of the try block yields an outcome: a returned    *)
(* triple, or an exception (exc).  consulted records whether               *)
(* self.model.predict was called.                                          *)
(***************************************************************************)
Returned(action, confidence, target_qty, consulted) ==
    [exc |-> FALSE, action |-> action, confidence |-> confidence,
     target_qty |-> target_qty, consulted |-> consulted]

Raised(consulted) ==
    [exc |-> TRUE, action |-> "NONE", confidence |-> 0, target_qty |-> 0,
     consulted |-> consulted]

\* market_data.get('price', 0)
get_price(sn) == IF sn.shape = "no_price_key" THEN Some(0) ELSE sn.price

\* mutant of Confidence: the cap at 1.0 left out
Confidence_NoCap(action_value) == Abs(action_value) * ConfidenceSlope

\* confidence = min(1.0, abs(action_value) * 2)
Confidence(action_value) == Min(One, Abs(action_value) * ConfidenceSlope)

\* mutant of SizeStep: the confidence factor left out, round(10 * x)
SizeStep_NoConfidence(confidence, x) == Round(SizeMultiplier * x, One)

\* round(10 * confidence * x), confidence and x in hundredths
SizeStep(confidence, x) == Round(SizeMultiplier * confidence * x, One * One)

\* current_position + round(10 * confidence * action_value)
BuyTarget(current_position, confidence, action_value) ==
    current_position + SizeStep(confidence, action_value)

\* mutant of SellTarget: the clamp max(0, ...) left out
SellTarget_NoClamp(current_position, confidence, action_value) ==
    current_position - SizeStep(confidence, Abs(action_value))

\* max(0, current_position - round(10 * confidence * abs(action_value)))
SellTarget(current_position, confidence, action_value) ==
    Max(0, current_position - SizeStep(confidence, Abs(action_value)))

\* mutant of SignalDecision: >= 0.1 and <= -0.1 in place of > and <
SignalDecision_InclusiveBounds(action_value, current_position) ==
    LET confidence == Confidence(action_value)
    IN  IF action_value >= SignalThreshold
        THEN Returned("BUY", confidence,
                      BuyTarget(current_position, confidence, action_value),
                      TRUE)
        ELSE IF action_value <= -SignalThreshold
        THEN Returned("SELL", confidence,
                      SellTarget(current_position, confidence, action_value),
                      TRUE)
        ELSE Returned("HOLD", confidence, current_position, TRUE)

\* the if / elif / else on action_value, shared by both engines
SignalDecision(action_value, current_position) ==
    LET confidence == Confidence(action_value)
    IN  IF action_value > SignalThreshold
        THEN Returned("BUY", confidence,
                      BuyTarget(current_position, confidence, action_value),
                      TRUE)
        ELSE IF action_value < -SignalThreshold
        THEN Returned("SELL", confidence,
                      SellTarget(current_position, confidence, action_value),
                      TRUE)
        ELSE Returned("HOLD", confidence, current_position, TRUE)

\* mutant of FallbackDecision: current_position >= 10 in place of > 10
FallbackDecision_InclusiveLimit(price, current_position) ==
    IF current_position >= FallbackPositionLimit
    THEN Returned("SELL", FallbackSellConfidence, current_position - 1, FALSE)
    ELSE IF price.v > 0
    THEN Returned("BUY", FallbackBuyConfidence, current_position + 1, FALSE)
    ELSE Returned("HOLD", FallbackHoldConfidence, current_position, FALSE)

\* mutant of FallbackDecision: the fallback BUY made with full confidence
FallbackDecision_ConfidentBuy(price, current_position) ==
    IF current_position > FallbackPositionLimit
    THEN Returned("SELL", FallbackSellConfidence, current_position - 1, FALSE)
    ELSE IF price.v > 0
    THEN Returned("BUY", One, current_position + 1, FALSE)
    ELSE Returned("HOLD", FallbackHoldConfidence, current_position, FALSE)

\* the fallback rules used when no model is loaded
FallbackDecision(price, current_position) ==
    IF current_position > FallbackPositionLimit
    THEN Returned("SELL", FallbackSellConfidence, current_position - 1, FALSE)
    ELSE IF price.v > 0
    THEN Returned("BUY", FallbackBuyConfidence, current_position + 1, FALSE)
    ELSE Returned("HOLD", FallbackHoldConfidence, current_position, FALSE)

\* DecisionEngine.get_action, the body of its try block
DecisionEngineBody(c, p) ==
    IF c.snapshot.shape = "not_a_dict" THEN Raised(FALSE)
    ELSE LET price == get_price(c.snapshot)
         IN  IF Falsy(price)
             THEN Returned("HOLD", 0, c.current_position, FALSE)
             ELSE IF c.model
             THEN IF c.snapshot.shape = "bad_volume" THEN Raised(FALSE)
                  ELSE IF p.raises THEN Raised(TRUE)
                  ELSE SignalDecision(p.signal, c.current_position)
             ELSE FallbackDecision(price, c.current_position)

\* FinRLClient.get_action, the body of its try block.  _prepare_observation
\* catches its own faults and returns zeros, so predict is always called
\* once a model is loaded.
FinRLBody(c, p) ==
    IF ~c.model THEN Returned("HOLD", 0, c.current_position, FALSE)
    ELSE IF p.raises THEN Raised(TRUE)
    ELSE SignalDecision(p.signal, c.current_position)

\* mutant of CatchAll: no except clause, the exception reaches the caller
CatchAll_Propagates(outcome, current_position) ==
    [done |-> TRUE, raised |-> outcome.exc, action |-> outcome.action,
     confidence |-> outcome.confidence, target_qty |-> outcome.target_qty,
     consulted |-> outcome.consulted, faulted |-> outcome.exc]

\* except Exception: return "HOLD", 0.0, current_position
CatchAll(outcome, current_position) ==
    IF outcome.exc
    THEN [done |-> TRUE, raised |-> FALSE, action |-> "HOLD", confidence |-> 0,
          target_qty |-> current_position, consulted |-> outcome.consulted,
          faulted |-> TRUE]
    ELSE [done |-> TRUE, raised |-> FALSE, action |-> outcome.action,
          confidence |-> outcome.confidence, target_qty |-> outcome.target_qty,
          consulted |-> outcome.consulted, faulted |-> FALSE]

DecisionEngine_get_action(c, p) ==
    CatchAll(DecisionEngineBody(c, p), c.current_position)

FinRLClient_get_action(c, p) ==
    CatchAll(FinRLBody(c, p), c.current_position)

get_action(c, p) ==
    IF c.engine = "DecisionEngine" THEN DecisionEngine_get_action(c, p)
    ELSE FinRLClient_get_action(c, p)

NoPrediction == [raises |-> TRUE, signal |-> 0]

\* whether the call reaches self.model.predict
ConsultsPolicy(c) == get_action(c, NoPrediction).consulted

NoRet ==
    [done |-> FALSE, raised |-> FALSE, action |-> "NONE", confidence |-> 0, target_qty |-> 0,
     consulted |-> FALSE, faulted |-> FALSE]

(***************************************************************************)
(* main(): values of the trading loop.                                     *)
(***************************************************************************)
\* all_symbols, as get_spy500_symbols returned it
all_symbols == <<"AAPL", "MSFT", "GOOG">>

\* symbols is a local of main() that line 121 assigns and nothing assigns
\* before the loop: it is unbound until line 121 has run.
Unbound == [bound |-> FALSE, list |-> <<>>]

Bound(list) == [bound |-> TRUE, list |-> list]

\* An instant of the exchange's clock: weekday (0 is Monday) and time of day
\* to the microsecond, as datetime.now(eastern) gives it.
At(hour, minute, second, microsecond) ==
    [hour |-> hour, minute |-> minute, second |-> second, microsecond |-> microsecond]

OnDay(d, t) ==
    [weekday |-> d, hour |-> t.hour, minute |-> t.minute, second |-> t.second,
     microsecond |-> t.microsecond]

\* the instants the loop's clock is sampled at
TimesOfDay ==
    {At(9, 29, 59, 0), At(9, 30, 0, 0), At(16, 0, 0, 0), At(16, 0, 1, 0)}

Instants == {OnDay(d, t) : d \in 0 .. 6, t \in TimesOfDay}

\* the instants is_market_open is called at when taken on its own

ClockTimes ==
    {At(8, 0, 0, 0), At(9, 29, 59, 500000), At(9, 30, 0, 0), At(9, 30, 0, 500000),
     At(10, 0, 0, 0), At(15, 59, 59, 500000), At(16, 0, 0, 0), At(16, 0, 0, 500000),
     At(16, 0, 1, 0), At(20, 0, 0, 0)}

ClockInstants == {OnDay(d, t) : d \in 0 .. 6, t \in ClockTimes}

SecondOfDay(hour, minute, second) == (hour * 60 + minute) * 60 + second

\* a <= b for two datetimes of one day
DatetimeLE(a, b) ==
    LET sa == SecondOfDay(a.hour, a.minute, a.second)
        sb == SecondOfDay(b.hour, b.minute, b.second)
    IN  sa < sb \/ (sa = sb /\ a.microsecond <= b.microsecond)

\* now.replace(hour=, minute=, second=0): date and microsecond are kept
replace(t, hour, minute) ==
    [t EXCEPT !.hour = hour, !.minute = minute, !.second = 0]

is_market_open(t) ==
    IF t.weekday > LastWeekday THEN FALSE
    ELSE LET market_open == replace(t, MARKET_OPEN_HOUR, MARKET_OPEN_MINUTE)
             market_close == replace(t, MARKET_CLOSE_HOUR, MARKET_CLOSE_MINUTE)
         IN  DatetimeLE(market_open, t) /\ DatetimeLE(t, market_close)

\* the name of an instrument, or None
NoName == [some |-> FALSE, v |-> ""]

Named(n) == [some |-> TRUE, v |-> n]

\* the entry get_market_data stores when the call raised or had no results
NoData ==
    [shape |-> "dict", price |-> None, volume |-> None, market_cap |-> None,
     name |-> NoName]

\* What polygon_client.get_symbol_details does: it raises, or returns an
\* object without results, with results that lack last_trade and day, or
\* with a full quote.
ProviderOutcomes == {"raises", "no_results", "no_last_trade", "quote"}

\* the dict get_market_data builds for the symbol from what the call did
market_data_entry(outcome) ==
    IF outcome \in {"raises", "no_results"} THEN NoData
    ELSE IF outcome = "no_last_trade"
    THEN [shape |-> "dict", price |-> None, volume |-> None,
          market_cap |-> Some(2000), name |-> Named("Instrument")]
    ELSE [shape |-> "dict", price |-> Some(150), volume |-> Some(1000000),
          market_cap |-> Some(2000), name |-> Named("Instrument")]

SnapshotEntries == {market_data_entry(o) : o \in ProviderOutcomes}

\* What the policy does when the loop's decision engine consults it.
LoopSignals == {-60, 0, 35, 36, 60}

LoopPredictOutcomes ==
    {NoPrediction} \cup {[raises |-> FALSE, signal |-> s] : s \in LoopSignals}

\* portfolio = {} is an empty dict; after get_positions returned it is the
\* list of Position objects of get_all_positions.
NoFunction == [s \in {} |-> 0]

\* held maps the keys of the dict to the qty of their position
EmptyDict == [is_list |-> FALSE, held |-> NoFunction]

PositionList == [is_list |-> TRUE, held |-> NoFunction]

\* "symbol in portfolio": a key of the dict; a list of Position objects
\* holds no str
InPortfolio(symbol, pf) == ~pf.is_list /\ symbol \in DOMAIN pf.held

Range(seq) == {seq[i] : i \in 1 .. Len(seq)}

\* mutant of OrderFor: confidence >= 0.7 in place of > 0.7
OrderFor_InclusiveGate(symbol, action, confidence, target_qty, current_position_qty) ==
    IF action = "BUY" /\ confidence >= ConfidenceGate
    THEN IF target_qty - current_position_qty > 0
         THEN <<[symbol |-> symbol, side |-> "BUY",
                 qty |-> target_qty - current_position_qty]>>
         ELSE <<>>
    ELSE IF action = "SELL" /\ confidence >= ConfidenceGate
    THEN IF current_position_qty - target_qty > 0
         THEN <<[symbol |-> symbol, side |-> "SELL",
                 qty |-> current_position_qty - target_qty]>>
         ELSE <<>>
    ELSE <<>>

\* mutant of OrderFor: the BUY delta taken as current - target
OrderFor_SwappedDelta(symbol, action, confidence, target_qty, current_position_qty) ==
    IF action = "BUY" /\ confidence > ConfidenceGate
    THEN IF current_position_qty - target_qty > 0
         THEN <<[symbol |-> symbol, side |-> "BUY",
                 qty |-> current_position_qty - target_qty]>>
         ELSE <<>>
    ELSE IF action = "SELL" /\ confidence > ConfidenceGate
    THEN IF current_position_qty - target_qty > 0
         THEN <<[symbol |-> symbol, side |-> "SELL",
                 qty |-> current_position_qty - target_qty]>>
         ELSE <<>>
    ELSE <<>>

\* mutant of OrderFor: the order is submitted twice
OrderFor_Resubmits(symbol, action, confidence, target_qty, current_position_qty) ==
    IF action = "BUY" /\ confidence > ConfidenceGate
    THEN IF target_qty - current_position_qty > 0
         THEN <<[symbol |-> symbol, side |-> "BUY",
                 qty |-> target_qty - current_position_qty],
                [symbol |-> symbol, side |-> "BUY",
                 qty |-> target_qty - current_position_qty]>>
         ELSE <<>>
    ELSE IF action = "SELL" /\ confidence > ConfidenceGate
    THEN IF current_position_qty - target_qty > 0
         THEN <<[symbol |-> symbol, side |-> "SELL",
                 qty |-> current_position_qty - target_qty],
                [symbol |-> symbol, side |-> "SELL",
                 qty |-> current_position_qty - target_qty]>>
         ELSE <<>>
    ELSE <<>>

\* "Execute trades based on model recommendation": the orders the loop
\* submits for one decision, none or one
OrderFor(symbol, action, confidence, target_qty, current_position_qty) ==
    IF action = "BUY" /\ confidence > ConfidenceGate
    THEN IF target_qty - current_position_qty > 0
         THEN <<[symbol |-> symbol, side |-> "BUY",
                 qty |-> target_qty - current_position_qty]>>
         ELSE <<>>
    ELSE IF action = "SELL" /\ confidence > ConfidenceGate
    THEN IF current_position_qty - target_qty > 0
         THEN <<[symbol |-> symbol, side |-> "SELL",
                 qty |-> current_position_qty - target_qty]>>
         ELSE <<>>
    ELSE <<>>

\* current_position_qty = 0, or float(portfolio[symbol].get('qty', 0)) when
\* symbol in portfolio
current_position_qty(symbol, pf) ==
    IF InPortfolio(symbol, pf) THEN pf.held[symbol] ELSE 0

(***************************************************************************)
(* main(): the steps of the while loop.                                    *)
(***************************************************************************)
Put(f, key, value) ==
    [k \in DOMAIN f \cup {key} |-> IF k = key THEN value ELSE f[k]]

Caught(where, symbol) == [where |-> where, symbol |-> symbol]

\* mutant of Stored: the except clause logs and stores no entry
Stored_ExceptLogsOnly(md, symbol, outcome) ==
    IF outcome = "raises" THEN md
    ELSE Put(md, symbol, market_data_entry(outcome))

\* market_data[symbol] = {...} in each of the three branches
Stored(md, symbol, outcome) == Put(md, symbol, market_data_entry(outcome))

\* What paper_trading_client.get_positions(symbol) returns: None when
\* get_open_position raised (no position, or a fault), else the position,
\* with its qty, and the list of all positions.
PositionOutcomes == {None, Some(5)}

NewIteration ==
    /\ tradable_asked' = {}
    /\ positions_asked' = {}
    /\ decisions' = NoFunction
    /\ orders' = <<>>
    /\ snapshot_calls' = NoFunction
    /\ reported' = NoFunction
    /\ caught' = {}

\* mutant of CheckMarket: the filter runs whatever is_market_open returned
CheckMarket_NoGate ==
    /\ pc = "loop"
    /\ \E t \in Instants :
          /\ now' = t
          /\ pc' = "filter"
    /\ NewIteration
    /\ UNCHANGED <<symbols, model, market_data, portfolio, idx, unpaced,
                   engineVars, clientVars>>

\* "while True:" and "if not is_market_open()"
CheckMarket ==
    /\ pc = "loop"
    /\ \E t \in Instants :
          /\ now' = t
          /\ pc' = IF is_market_open(t) THEN "filter" ELSE "closed_sleep"
    /\ NewIteration
    /\ UNCHANGED <<symbols, model, market_data, portfolio, idx, unpaced,
                   engineVars, clientVars>>

\* time.sleep(60); continue
ClosedSleep ==
    /\ pc = "closed_sleep"
    /\ pc' = "loop"
    /\ unpaced' = FALSE
    /\ UNCHANGED <<now, symbols, model, market_data, portfolio, idx,
                   tradable_asked, positions_asked, decisions, orders,
                   snapshot_calls, reported, caught, engineVars, clientVars>>

\* mutant of FilterTradable: the filter runs over all_symbols
FilterTradable_FromAllSymbols ==
    /\ pc = "filter"
    /\ \E tradable \in SUBSET Range(all_symbols) :
          /\ symbols' = Bound(SelectSeq(all_symbols, LAMBDA s : s \in tradable))
          /\ tradable_asked' = Range(all_symbols)
          /\ pc' = "market_data"
    /\ idx' = 1
    /\ market_data' = NoFunction
    /\ UNCHANGED <<now, model, portfolio, positions_asked, decisions, orders,
                   snapshot_calls, reported, caught, unpaced, engineVars, clientVars>>

\* "for symbol in symbols: if is_tradeable(symbol)" and "symbols =
\* tradable_symbols".  Reading the unbound local raises UnboundLocalError,
\* which the handler of the loop catches.
FilterTradable ==
    /\ pc = "filter"
    /\ IF ~symbols.bound
       THEN /\ pc' = "fault_sleep"
            /\ caught' = caught \cup {Caught("loop", "")}
            /\ UNCHANGED <<symbols, tradable_asked>>
       ELSE /\ \E tradable \in SUBSET Range(symbols.list) :
                  /\ symbols' = Bound(SelectSeq(symbols.list, LAMBDA s : s \in tradable))
                  /\ tradable_asked' = Range(symbols.list)
                  /\ pc' = "market_data"
            /\ UNCHANGED caught
    /\ idx' = 1
    /\ market_data' = NoFunction
    /\ UNCHANGED <<now, model, portfolio, positions_asked, decisions, orders,
                   snapshot_calls, reported, unpaced, engineVars, clientVars>>

\* mutant of FetchSnapshot: no try around the call, the exception leaves
\* get_market_data
FetchSnapshot_NoTry ==
    /\ pc = "market_data"
    /\ idx <= Len(symbols.list)
    /\ \E outcome \in ProviderOutcomes :
          /\ snapshot_calls' = Put(snapshot_calls, symbols.list[idx], outcome)
          /\ IF outcome = "raises"
             THEN /\ pc' = "fault_sleep"
                  /\ caught' = caught \cup {Caught("loop", "")}
                  /\ UNCHANGED <<market_data, idx>>
             ELSE /\ market_data' = Stored(market_data, symbols.list[idx], outcome)
                  /\ idx' = idx + 1
                  /\ UNCHANGED <<pc, caught>>
    /\ unpaced' = TRUE
    /\ UNCHANGED <<now, symbols, model, portfolio, tradable_asked,
                   positions_asked, decisions, orders, reported, engineVars, clientVars>>

\* One turn of the loop of get_market_data: the call, and the entry stored
\* from what it did; an exception is caught and logged in the turn.
FetchSnapshot ==
    /\ pc = "market_data"
    /\ idx <= Len(symbols.list)
    /\ \E outcome \in ProviderOutcomes :
          /\ snapshot_calls' = Put(snapshot_calls, symbols.list[idx], outcome)
          /\ market_data' = Stored(market_data, symbols.list[idx], outcome)
          /\ caught' = IF outcome = "raises"
                       THEN caught \cup {Caught("market_data", symbols.list[idx])}
                       ELSE caught
    /\ idx' = idx + 1
    /\ unpaced' = TRUE
    /\ UNCHANGED <<pc, now, symbols, model, portfolio, tradable_asked,
                   positions_asked, decisions, orders, reported, engineVars, clientVars>>

\* mutant of EndMarketData: "return market_data" inside the for loop
EndMarketData_ReturnsInLoop ==
    /\ pc = "market_data"
    /\ idx > Min(1, Len(symbols.list))
    /\ pc' = "positions"
    /\ portfolio' = EmptyDict
    /\ idx' = 1
    /\ UNCHANGED <<now, symbols, model, market_data, tradable_asked,
                   positions_asked, decisions, orders, snapshot_calls,
                   reported, caught, unpaced, engineVars, clientVars>>

\* "return market_data" into main(), and "portfolio = {}"
EndMarketData ==
    /\ pc = "market_data"
    /\ idx > Len(symbols.list)
    /\ pc' = "positions"
    /\ portfolio' = EmptyDict
    /\ idx' = 1
    /\ UNCHANGED <<now, symbols, model, market_data, tradable_asked,
                   positions_asked, decisions, orders, snapshot_calls,
                   reported, caught, unpaced, engineVars, clientVars>>

\* "return market_data" to a caller other than main()
ReturnMarketData ==
    /\ pc = "market_data"
    /\ idx > Len(symbols.list)
    /\ pc' = "returned"
    /\ UNCHANGED <<now, symbols, model, market_data, portfolio, idx,
                   tradable_asked, positions_asked, decisions, orders,
                   snapshot_calls, reported, caught, unpaced, engineVars, clientVars>>

\* One turn of the positions loop.  get_positions returns None on a fault,
\* and unpacking None raises; otherwise portfolio becomes the list of all
\* positions and portfolio[symbol] = position raises on the list.  Both
\* exceptions are caught and logged in the turn.
GetPosition ==
    /\ pc = "positions"
    /\ idx <= Len(symbols.list)
    /\ \E found \in PositionOutcomes :
          /\ portfolio' = IF found.some THEN PositionList ELSE portfolio
          /\ reported' = Put(reported, symbols.list[idx], found)
    /\ positions_asked' = positions_asked \cup {symbols.list[idx]}
    /\ caught' = caught \cup {Caught("position", symbols.list[idx])}
    /\ idx' = idx + 1
    /\ unpaced' = TRUE
    /\ UNCHANGED <<pc, now, symbols, model, market_data, tradable_asked,
                   decisions, orders, snapshot_calls, engineVars, clientVars>>

EndPositions ==
    /\ pc = "positions"
    /\ idx > Len(symbols.list)
    /\ pc' = "decide"
    /\ idx' = 1
    /\ UNCHANGED <<now, symbols, model, market_data, portfolio,
                   tradable_asked, positions_asked, decisions, orders,
                   snapshot_calls, reported, caught, unpaced, engineVars, clientVars>>

\* One turn of the decision loop: skip a symbol without a price, else ask
\* the decision engine and submit the order its answer calls for.
ProcessSymbol ==
    /\ pc = "decide"
    /\ idx <= Len(symbols.list)
    /\ LET symbol == symbols.list[idx]
       IN  IF symbol \notin DOMAIN market_data \/ ~market_data[symbol].price.some
           THEN UNCHANGED <<decisions, orders>>
           ELSE LET qty == current_position_qty(symbol, portfolio)
                    c == [engine |-> "DecisionEngine", model |-> model,
                          snapshot |-> market_data[symbol],
                          current_position |-> qty]
                IN  \E p \in LoopPredictOutcomes :
                       /\ ~ConsultsPolicy(c) => p = NoPrediction
                       /\ LET d == DecisionEngine_get_action(c, p)
                          IN  /\ decisions' =
                                    Put(decisions, symbol,
                                        [action |-> d.action,
                                         confidence |-> d.confidence,
                                         target_qty |-> d.target_qty,
                                         current_position |-> qty])
                              /\ orders' = orders \o
                                    OrderFor(symbol, d.action, d.confidence,
                                             d.target_qty, qty)
    /\ idx' = idx + 1
    /\ UNCHANGED <<pc, now, symbols, model, market_data, portfolio,
                   tradable_asked, positions_asked, snapshot_calls, reported,
                   caught, unpaced, engineVars, clientVars>>

EndDecide ==
    /\ pc = "decide"
    /\ idx > Len(symbols.list)
    /\ pc' = "cycle_sleep"
    /\ UNCHANGED <<now, symbols, model, market_data, portfolio, idx,
                   tradable_asked, positions_asked, decisions, orders,
                   snapshot_calls, reported, caught, unpaced, engineVars, clientVars>>

\* time.sleep(5) at the end of an iteration
CycleSleep ==
    /\ pc = "cycle_sleep"
    /\ pc' = "loop"
    /\ unpaced' = FALSE
    /\ UNCHANGED <<now, symbols, model, market_data, portfolio, idx,
                   tradable_asked, positions_asked, decisions, orders,
                   snapshot_calls, reported, caught, engineVars, clientVars>>

\* mutant of FaultSleep: the handler of the loop leaves the loop
FaultSleep_Exits ==
    /\ pc = "fault_sleep"
    /\ pc' = "exited"
    /\ unpaced' = FALSE
    /\ UNCHANGED <<now, symbols, model, market_data, portfolio, idx,
                   tradable_asked, positions_asked, decisions, orders,
                   snapshot_calls, reported, caught, engineVars, clientVars>>

\* "except Exception": logger.error, time.sleep(5), and the loop goes on
FaultSleep ==
    /\ pc = "fault_sleep"
    /\ pc' = "loop"
    /\ unpaced' = FALSE
    /\ UNCHANGED <<now, symbols, model, market_data, portfolio, idx,
                   tradable_asked, positions_asked, decisions, orders,
                   snapshot_calls, reported, caught, engineVars, clientVars>>

(***************************************************************************)
(* main(): the steps before the while loop.                                *)
(***************************************************************************)
\* PaperTradingClient, FinRLClient, PolygonClient and DecisionEngine are
\* built; a constructor may raise.  DecisionEngine.load_model leaves model
\* None when it finds or loads no model.
ConstructClients ==
    /\ pc = "start"
    /\ \E built \in BOOLEAN :
          IF built
          THEN /\ pc' = "account"
               /\ model' \in BOOLEAN
          ELSE /\ pc' = "fatal"
               /\ UNCHANGED model
    /\ UNCHANGED <<now, symbols, market_data, portfolio, idx, tradable_asked,
                   positions_asked, decisions, orders, snapshot_calls,
                   reported, caught, unpaced, engineVars, clientVars>>

\* What paper_trading_client.get_account_info() does: it returns the dict,
\* get_account raises, or the conversion raises before account_dict is
\* assigned, which is logged there and then "return account_dict" raises.
AccountOutcomes == {"dict", "raises", "conversion_raises"}

GetAccountInfo ==
    /\ pc = "account"
    /\ \E outcome \in AccountOutcomes :
          /\ pc' = IF outcome = "dict" THEN "universe" ELSE "fatal"
          /\ caught' = IF outcome = "conversion_raises"
                       THEN caught \cup {Caught("get_account_info", "")}
                       ELSE caught
    /\ UNCHANGED <<now, symbols, model, market_data, portfolio, idx,
                   tradable_asked, positions_asked, decisions, orders,
                   snapshot_calls, reported, unpaced, engineVars, clientVars>>

\* all_symbols = get_spy500_symbols(logger), which may raise; symbols stays
\* unassigned
FetchAllSymbols ==
    /\ pc = "universe"
    /\ \E fetched \in BOOLEAN : pc' = IF fetched THEN "loop" ELSE "fatal"
    /\ UNCHANGED <<now, symbols, model, market_data, portfolio, idx,
                   tradable_asked, positions_asked, decisions, orders,
                   snapshot_calls, reported, caught, unpaced, engineVars, clientVars>>

\* mutant of FatalExit: the handler logs and the loop is entered all the same
FatalExit_EntersLoop ==
    /\ pc = "fatal"
    /\ pc' = "loop"
    /\ caught' = caught \cup {Caught("main", "")}
    /\ UNCHANGED <<now, symbols, model, market_data, portfolio, idx,
                   tradable_asked, positions_asked, decisions, orders,
                   snapshot_calls, reported, unpaced, engineVars, clientVars>>

\* the outer "except Exception": logger.error, and main() returns
FatalExit ==
    /\ pc = "fatal"
    /\ pc' = "exited"
    /\ caught' = caught \cup {Caught("main", "")}
    /\ UNCHANGED <<now, symbols, model, market_data, portfolio, idx,
                   tradable_asked, positions_asked, decisions, orders,
                   snapshot_calls, reported, unpaced, engineVars, clientVars>>

(***************************************************************************)
(* FutuClient.  A context field is "none" (None), "open", or "closed": the *)
(* context object after its close() was called.                            *)
(***************************************************************************)
FutuClient(password) ==
    [quote_context |-> "none", trade_context |-> "none", trade_password |-> password]

\* What a call on a context does: it raises, or returns a code with its data.
ServerOutcomes == {"raises", "nonzero", "zero"}

KLineSubtypes ==
    {"K_1M", "K_5M", "K_15M", "K_30M", "K_60M", "K_DAY", "K_WEEK", "K_MONTH"}

\* the argument subtype: None, or a list of names
NoSubtype == [given |-> FALSE, list |-> <<>>]

SubtypeArgs ==
    {NoSubtype} \cup
    {[given |-> TRUE, list |-> l] :
        l \in {<<>>, <<"QUOTE">>, <<"ORDER_BOOK">>, <<"K_1M">>, <<"TICKER">>,
               <<"K_DAY", "QUOTE">>}}

\* an operation issued on a context, with the state the context was in
FutuOp(ctx, op, state) == [ctx |-> ctx, op |-> op, state |-> state]

\* what a call returns: a frame, a bool, or a result dict; raised when the
\* call did not return
NoResult ==
    [raised |-> FALSE, frame |-> "none", success |-> "none", error |-> "",
     order_id |-> ""]

EmptyFrame == [NoResult EXCEPT !.frame = "empty"]

DataFrame == [NoResult EXCEPT !.frame = "data"]

Failure(error) == [NoResult EXCEPT !.success = "false", !.error = error]

Success(order_id) == [NoResult EXCEPT !.success = "true", !.order_id = order_id]

Bool(b) == [NoResult EXCEPT !.success = IF b THEN "true" ELSE "false"]

Propagated == [NoResult EXCEPT !.raised = TRUE]

\* connect(): each constructor may raise; unlock_trade answers a code
connect(f, quote_opened, trade_opened, unlocked) ==
    LET open_quote == FutuOp("quote", "open", f.quote_context)
        open_trade == FutuOp("trade", "open", f.trade_context)
        unlock == FutuOp("trade", "unlock_trade", "open")
        f1 == [f EXCEPT !.quote_context = "open"]
        f2 == [f1 EXCEPT !.trade_context = "open"]
    IN  IF ~quote_opened
        THEN [f |-> f, ops |-> <<open_quote>>, ret |-> Bool(FALSE)]
        ELSE IF ~f.trade_password
        THEN [f |-> f1, ops |-> <<open_quote>>, ret |-> Bool(TRUE)]
        ELSE IF ~trade_opened
        THEN [f |-> f1, ops |-> <<open_quote, open_trade>>, ret |-> Bool(FALSE)]
        ELSE [f |-> f2, ops |-> <<open_quote, open_trade, unlock>>,
              ret |-> Bool(unlocked = "zero")]

\* disconnect(): close() on each context that is not None; the fields keep
\* the closed objects
disconnect(f) ==
    LET close_quote == IF f.quote_context = "none" THEN <<>>
                       ELSE <<FutuOp("quote", "close", f.quote_context)>>
        close_trade == IF f.trade_context = "none" THEN <<>>
                       ELSE <<FutuOp("trade", "close", f.trade_context)>>
    IN  [f |-> [f EXCEPT !.quote_context = IF @ = "none" THEN "none" ELSE "closed",
                         !.trade_context = IF @ = "none" THEN "none" ELSE "closed"],
         ops |-> close_quote \o close_trade,
         ret |-> NoResult]

\* the call the if/elif chain picks for the list
DataCall(list) ==
    IF "QUOTE" \in Range(list) THEN "get_stock_quote"
    ELSE IF "ORDER_BOOK" \in Range(list) THEN "get_order_book"
    ELSE IF Range(list) \cap KLineSubtypes /= {} THEN "get_cur_kline"
    ELSE "unsupported"

\* mutant of fetch_real_time_data: the code of subscribe is not tested
fetch_real_time_data_IgnoresCode(f, subtype, subscribed, got) ==
    IF f.quote_context = "none" THEN [f |-> f, ops |-> <<>>, ret |-> EmptyFrame]
    ELSE LET list == IF ~subtype.given \/ subtype.list = <<>>
                     THEN <<"QUOTE">> ELSE subtype.list
             subscribe == FutuOp("quote", "subscribe", f.quote_context)
             fetch == FutuOp("quote", DataCall(list), f.quote_context)
         IN  IF subscribed = "raises"
             THEN [f |-> f, ops |-> <<subscribe>>, ret |-> EmptyFrame]
             ELSE IF DataCall(list) = "unsupported"
             THEN [f |-> f, ops |-> <<subscribe>>, ret |-> EmptyFrame]
             ELSE [f |-> f, ops |-> <<subscribe, fetch>>,
                   ret |-> IF got = "zero" THEN DataFrame ELSE EmptyFrame]

fetch_real_time_data(f, subtype, subscribed, got) ==
    IF f.quote_context = "none" THEN [f |-> f, ops |-> <<>>, ret |-> EmptyFrame]
    ELSE LET list == IF ~subtype.given \/ subtype.list = <<>>
                     THEN <<"QUOTE">> ELSE subtype.list
             subscribe == FutuOp("quote", "subscribe", f.quote_context)
             fetch == FutuOp("quote", DataCall(list), f.quote_context)
         IN  IF subscribed /= "zero"
             THEN [f |-> f, ops |-> <<subscribe>>, ret |-> EmptyFrame]
             ELSE IF DataCall(list) = "unsupported"
             THEN [f |-> f, ops |-> <<subscribe>>, ret |-> EmptyFrame]
             ELSE [f |-> f, ops |-> <<subscribe, fetch>>,
                   ret |-> IF got = "zero" THEN DataFrame ELSE EmptyFrame]

\* mutant of place_order: no try around the placement
place_order_NoTry(f, placed) ==
    IF f.trade_context = "none"
    THEN [f |-> f, ops |-> <<>>, ret |-> Failure("Trade context not initialized")]
    ELSE LET place == FutuOp("trade", "place_order", f.trade_context)
         IN  IF placed = "raises"
             THEN [f |-> f, ops |-> <<place>>, ret |-> Propagated]
             ELSE IF placed = "nonzero"
             THEN [f |-> f, ops |-> <<place>>, ret |-> Failure("data")]
             ELSE [f |-> f, ops |-> <<place>>, ret |-> Success("order_id")]

\* place_order(): "data" stands for what the server returned with its code,
\* "str(e)" for the text of the exception
place_order(f, placed) ==
    IF f.trade_context = "none"
    THEN [f |-> f, ops |-> <<>>, ret |-> Failure("Trade context not initialized")]
    ELSE LET place == FutuOp("trade", "place_order", f.trade_context)
         IN  IF placed = "raises"
             THEN [f |-> f, ops |-> <<place>>, ret |-> Failure("str(e)")]
             ELSE IF placed = "nonzero"
             THEN [f |-> f, ops |-> <<place>>, ret |-> Failure("data")]
             ELSE [f |-> f, ops |-> <<place>>, ret |-> Success("order_id")]

\* one call on the client, recorded with what it did; outcome is what the
\* first server call of fetch_real_time_data or place_order did
FutuCall(name, subtype, outcome, done) ==
    /\ Len(futu_trace) < MaxFutuCalls
    /\ futu' = done.f
    /\ futu_trace' = Append(futu_trace,
          [call |-> name, before |-> futu, subtype |-> subtype,
           outcome |-> outcome, ops |-> done.ops, ret |-> done.ret])
    /\ UNCHANGED <<configured_loggers, logging_registry, logger_trace,
                   order_requests, engineVars, loopVars>>

FutuConnect ==
    \E quote_opened, trade_opened \in BOOLEAN, unlocked \in ServerOutcomes :
        FutuCall("connect", NoSubtype, "",
                 connect(futu, quote_opened, trade_opened, unlocked))

FutuDisconnect == FutuCall("disconnect", NoSubtype, "", disconnect(futu))

FutuFetch ==
    \E subtype \in SubtypeArgs, subscribed, got \in ServerOutcomes :
        FutuCall("fetch_real_time_data", subtype, subscribed,
                 fetch_real_time_data(futu, subtype, subscribed, got))

FutuPlaceOrder ==
    \E placed \in ServerOutcomes :
        FutuCall("place_order", NoSubtype, placed, place_order(futu, placed))

(***************************************************************************)
(* quant.logger.  logging.getLogger(name) keeps one Logger object per      *)
(* name; a logger is written here as its level and its handlers, and a     *)
(* reference to it as its name.                                            *)
(***************************************************************************)
LoggerNames == {"main", "quant"}

\* the keyword arguments of a call: the defaults, or other levels and
\* another file
LoggerArgs ==
    {[log_level |-> "INFO", console_level |-> "INFO", file_level |-> "DEBUG",
      log_file |-> "trade"],
     [log_level |-> "DEBUG", console_level |-> "WARNING", file_level |-> "INFO",
      log_file |-> "test"]}

\* What the file system does in a call: nothing goes wrong, os.makedirs
\* raises, or logging.FileHandler raises.
LoggerOutcomes == {"done", "makedirs_raises", "file_handler_raises"}

Handler(kind, level, file) == [kind |-> kind, level |-> level, file |-> file]

\* mutant of configure_logger: no early return for a configured name
configure_logger_NoEarlyReturn(conf, reg, name, args, outcome) ==
    IF outcome = "makedirs_raises"
    THEN [conf |-> conf, reg |-> reg, raised |-> TRUE, logger |-> ""]
    ELSE LET console == Handler("console", args.console_level, "stdout")
             file == Handler("file", args.file_level, args.log_file)
         IN  IF outcome = "file_handler_raises"
             THEN [conf |-> conf,
                   reg |-> Put(reg, name, [level |-> args.log_level,
                                           handlers |-> <<console>>]),
                   raised |-> TRUE, logger |-> ""]
             ELSE [conf |-> Put(conf, name, name),
                   reg |-> Put(reg, name, [level |-> args.log_level,
                                           handlers |-> <<console, file>>]),
                   raised |-> FALSE, logger |-> name]

\* configure_logger: the state of the module and of logging after the call,
\* and the logger returned, unless the call raised
configure_logger(conf, reg, name, args, outcome) ==
    IF name \in DOMAIN conf
    THEN [conf |-> conf, reg |-> reg, raised |-> FALSE, logger |-> conf[name]]
    ELSE IF outcome = "makedirs_raises"
    THEN [conf |-> conf, reg |-> reg, raised |-> TRUE, logger |-> ""]
    ELSE LET console == Handler("console", args.console_level, "stdout")
             file == Handler("file", args.file_level, args.log_file)
         IN  IF outcome = "file_handler_raises"
             THEN [conf |-> conf,
                   reg |-> Put(reg, name, [level |-> args.log_level,
                                           handlers |-> <<console>>]),
                   raised |-> TRUE, logger |-> ""]
             ELSE [conf |-> Put(conf, name, name),
                   reg |-> Put(reg, name, [level |-> args.log_level,
                                           handlers |-> <<console, file>>]),
                   raised |-> FALSE, logger |-> name]

\* get_logger(name, **kwargs) is configure_logger(name=name, **kwargs)
get_logger(conf, reg, name, args, outcome) ==
    configure_logger(conf, reg, name, args, outcome)

LoggerCall(fn, name, args, done) ==
    /\ Len(logger_trace) < MaxLoggerCalls
    /\ configured_loggers' = done.conf
    /\ logging_registry' = done.reg
    /\ logger_trace' = Append(logger_trace,
          [fn |-> fn, name |-> name, args |-> args, raised |-> done.raised,
           logger |-> done.logger])
    /\ UNCHANGED <<futu, futu_trace, order_requests, engineVars, loopVars>>

CallConfigureLogger ==
    \E name \in LoggerNames, args \in LoggerArgs, outcome \in LoggerOutcomes :
        LoggerCall("configure_logger", name, args,
                   configure_logger(configured_loggers, logging_registry,
                                    name, args, outcome))

CallGetLogger ==
    \E name \in LoggerNames, args \in LoggerArgs, outcome \in LoggerOutcomes :
        LoggerCall("get_logger", name, args,
                   get_logger(configured_loggers, logging_registry,
                              name, args, outcome))

(***************************************************************************)
(* PaperTradingClient, the order methods.  Each builds a request of the    *)
(* alpaca library and submits it; a request is written as the keyword      *)
(* arguments it was built with, the prices and percentages as the names of *)
(* the arguments given.  A str is written as the sequence of its           *)
(* characters.                                                             *)
(***************************************************************************)
HexDigits ==
    <<"0", "1", "2", "3", "4", "5", "6", "7", "8", "9", "a", "b", "c", "d",
      "e", "f">>

\* '%0*x' % (width, n), for 0 <= n < 16 ** width
RECURSIVE Hex(_, _)
Hex(n, width) ==
    IF width = 0 THEN <<>>
    ELSE Append(Hex(n \div 16, width - 1), HexDigits[(n % 16) + 1])

\* str(UUID(int=n)): 32 hex digits in groups of 8, 4, 4, 4 and 12
UUIDStr(n) ==
    LET hex == Hex(n, 32)
    IN  SubSeq(hex, 1, 8) \o <<"-">> \o SubSeq(hex, 9, 12) \o <<"-">> \o
        SubSeq(hex, 13, 16) \o <<"-">> \o SubSeq(hex, 17, 20) \o <<"-">> \o
        SubSeq(hex, 21, 32)

\* mutant of new_order_id: the number of earlier calls as the UUID's int
new_order_id_Counting(earlier) == UUIDStr(Len(earlier))

\* order_id = str(UUID(int=0)), the first statement of every order method;
\* earlier is what the client has done so far, which the statement ignores
new_order_id(earlier) == UUIDStr(0)

\* the order methods: the request class, side, time in force and the other
\* keyword arguments each passes
OrderMethods ==
    [buy_market_order |->
        [request |-> "MarketOrderRequest", side |-> "BUY", tif |-> "DAY",
         extra |-> {}],
     sell_market_order |->
        [request |-> "MarketOrderRequest", side |-> "SELL", tif |-> "DAY",
         extra |-> {}],
     buy_limit_order |->
        [request |-> "LimitOrderRequest", side |-> "BUY", tif |-> "DAY",
         extra |-> {"limit_price"}],
     sell_limit_order |->
        [request |-> "LimitOrderRequest", side |-> "SELL", tif |-> "DAY",
         extra |-> {"limit_price"}],
     buy_shorts |->
        [request |-> "MarketOrderRequest", side |-> "BUY", tif |-> "GTC",
         extra |-> {}],
     sell_shorts |->
        [request |-> "MarketOrderRequest", side |-> "SELL", tif |-> "GTC",
         extra |-> {}],
     buy_bracket_order |->
        [request |-> "MarketOrderRequest", side |-> "BUY", tif |-> "DAY",
         extra |-> {"order_class", "take_profit", "stop_loss"}],
     sell_bracket_order |->
        [request |-> "TrailingStopOrderRequest", side |-> "SELL",
         tif |-> "DAY",
         extra |-> {"order_class", "take_profit", "stop_loss"}],
     buy_trailing_percent_order |->
        [request |-> "TrailingStopOrderRequest", side |-> "BUY",
         tif |-> "GTC", extra |-> {"trail_percent"}],
     sell_trailing_percent_order |->
        [request |-> "TrailingStopOrderRequest", side |-> "SELL",
         tif |-> "GTC", extra |-> {"trail_percent"}],
     buy_trailing_price_order |->
        [request |-> "TrailingStopOrderRequest", side |-> "BUY",
         tif |-> "GTC", extra |-> {"trail_price"}],
     sell_trailing_price_order |->
        [request |-> "TrailingStopOrderRequest", side |-> "SELL",
         tif |-> "GTC", extra |-> {"trail_price"}]]

\* the symbol and quantity of a call
OrderPositionals ==
    {[symbol |-> "AAPL", qty |-> 1], [symbol |-> "MSFT", qty |-> 5]}

\* What happens in the try block: the request constructor raises, the
\* request is built and submit_order raises, or the order is submitted.
OrderOutcomes == {"request_raises", "submit_raises", "submitted"}

NoRequest ==
    [built |-> FALSE, class |-> "", symbol |-> "", qty |-> 0, side |-> "",
     time_in_force |-> "", extra |-> {}, client_order_id |-> <<>>]

OrderRequest(m, symbol, qty, order_id) ==
    [built |-> TRUE, class |-> m.request, symbol |-> symbol, qty |-> qty,
     side |-> m.side, time_in_force |-> m.tif, extra |-> m.extra,
     client_order_id |-> order_id]

\* One order method: the request it built, if any, and what it returned:
\* the order submit_order answered with, or None after an exception.
OrderCall(method, symbol, qty, outcome) ==
    LET order_id == new_order_id(order_requests)
        request ==
            IF outcome = "request_raises" THEN NoRequest
            ELSE OrderRequest(OrderMethods[method], symbol, qty, order_id)
    IN  /\ Len(order_requests) < MaxOrderCalls
        /\ order_requests' = Append(order_requests,
              [method |-> method, request |-> request,
               ret |-> IF outcome = "submitted" THEN "order" ELSE "None"])
        /\ UNCHANGED <<futu, futu_trace, configured_loggers,
                       logging_registry, logger_trace, engineVars, loopVars>>

OrderArgs(method) ==
    \E a \in OrderPositionals, outcome \in OrderOutcomes :
        OrderCall(method, a.symbol, a.qty, outcome)

buy_market_order == OrderArgs("buy_market_order")

sell_market_order == OrderArgs("sell_market_order")

buy_limit_order == OrderArgs("buy_limit_order")

sell_limit_order == OrderArgs("sell_limit_order")

buy_shorts == OrderArgs("buy_shorts")

sell_shorts == OrderArgs("sell_shorts")

buy_bracket_order == OrderArgs("buy_bracket_order")

sell_bracket_order == OrderArgs("sell_bracket_order")

buy_trailing_percent_order == OrderArgs("buy_trailing_percent_order")

sell_trailing_percent_order == OrderArgs("sell_trailing_percent_order")

buy_trailing_price_order == OrderArgs("buy_trailing_price_order")

sell_trailing_price_order == OrderArgs("sell_trailing_price_order")

(***************************************************************************)
(* Specifications.                                                         *)
(***************************************************************************)
\* a FutuClient just built, without trade password, and no call made on it
FutuIdle ==
    /\ futu = FutuClient(FALSE)
    /\ futu_trace = <<>>

\* quant.logger just imported
LoggerIdle ==
    /\ configured_loggers = NoFunction
    /\ logging_registry = NoFunction
    /\ logger_trace = <<>>

\* a PaperTradingClient that built no order request
OrdersIdle == order_requests = <<>>

ClientIdle == FutuIdle /\ LoggerIdle /\ OrdersIdle

EngineIdle ==
    /\ call = [engine |-> "DecisionEngine", model |-> FALSE,
               snapshot |-> NoData, current_position |-> 0]
    /\ ret = NoRet
    /\ predicted = NoPrediction

LoopIdle ==
    /\ pc = "idle"
    /\ now = OnDay(0, At(9, 30, 0, 0))
    /\ symbols = Unbound
    /\ model = FALSE
    /\ market_data = NoFunction
    /\ portfolio = EmptyDict
    /\ idx = 1
    /\ tradable_asked = {}
    /\ positions_asked = {}
    /\ decisions = NoFunction
    /\ orders = <<>>
    /\ snapshot_calls = NoFunction
    /\ reported = NoFunction
    /\ caught = {}
    /\ unpaced = FALSE

\* main() as it enters "while True": the clients are built and all_symbols is
\* fetched; symbols has not been assigned.
Init ==
    /\ EngineIdle
    /\ pc = "loop"
    /\ now \in Instants
    /\ symbols = Unbound
    /\ model \in BOOLEAN
    /\ market_data = NoFunction
    /\ portfolio = EmptyDict
    /\ idx = 1
    /\ tradable_asked = {}
    /\ positions_asked = {}
    /\ decisions = NoFunction
    /\ orders = <<>>
    /\ snapshot_calls = NoFunction
    /\ reported = NoFunction
    /\ caught = {}
    /\ unpaced = FALSE
    /\ ClientIdle

\* The steps main() can take from Init.  With symbols unbound the steps after
\* the tradability filter are never reached.
Next == CheckMarket \/ ClosedSleep \/ FilterTradable \/ FaultSleep

Spec == Init /\ [][Next]_vars

\* The body of the loop entered with symbols bound to all_symbols, the state
\* line 117 reads: the body taken on its own, as main() never reaches it.
CycleInit ==
    /\ EngineIdle
    /\ pc = "loop"
    /\ now \in Instants
    /\ symbols = Bound(all_symbols)
    /\ model \in BOOLEAN
    /\ market_data = NoFunction
    /\ portfolio = EmptyDict
    /\ idx = 1
    /\ tradable_asked = {}
    /\ positions_asked = {}
    /\ decisions = NoFunction
    /\ orders = <<>>
    /\ snapshot_calls = NoFunction
    /\ reported = NoFunction
    /\ caught = {}
    /\ unpaced = FALSE
    /\ ClientIdle

CycleNext ==
    \/ CheckMarket
    \/ ClosedSleep
    \/ FilterTradable
    \/ FetchSnapshot
    \/ EndMarketData
    \/ GetPosition
    \/ EndPositions
    \/ ProcessSymbol
    \/ EndDecide
    \/ CycleSleep

SpecCycle == CycleInit /\ [][CycleNext]_vars

\* One get_action call on any arguments, taken on its own.
EngineInit ==
    /\ call \in Calls
    /\ ret = NoRet
    /\ predicted = NoPrediction
    /\ LoopIdle
    /\ ClientIdle

\* the caller invokes get_action; the policy, when consulted, answers
CallGetAction ==
    /\ ~ret.done
    /\ \E p \in PredictOutcomes :
          /\ ~ConsultsPolicy(call) => p = NoPrediction
          /\ predicted' = p
          /\ ret' = get_action(call, p)
    /\ UNCHANGED <<call, loopVars, clientVars>>

EngineNext == CallGetAction

SpecEngine == EngineInit /\ [][EngineNext]_vars

\* One is_market_open call at any instant, taken on its own.
ClockInit ==
    /\ EngineIdle
    /\ pc = "clock"
    /\ now \in ClockInstants
    /\ symbols = Unbound
    /\ model = FALSE
    /\ market_data = NoFunction
    /\ portfolio = EmptyDict
    /\ idx = 1
    /\ tradable_asked = {}
    /\ positions_asked = {}
    /\ decisions = NoFunction
    /\ orders = <<>>
    /\ snapshot_calls = NoFunction
    /\ reported = NoFunction
    /\ caught = {}
    /\ unpaced = FALSE
    /\ ClientIdle

\* the caller invokes is_market_open() and has its answer
CallIsMarketOpen ==
    /\ pc = "clock"
    /\ pc' = IF is_market_open(now) THEN "open" ELSE "not_open"
    /\ UNCHANGED <<now, symbols, model, market_data, portfolio, idx,
                   tradable_asked, positions_asked, decisions, orders,
                   snapshot_calls, reported, caught, unpaced, engineVars, clientVars>>

ClockNext == CallIsMarketOpen

SpecClock == ClockInit /\ [][ClockNext]_vars

\* One get_market_data call on any list of symbols, taken on its own.
RequestLists ==
    UNION {[1 .. n -> Range(all_symbols)] : n \in 0 .. Len(all_symbols)}

MarketDataInit ==
    /\ EngineIdle
    /\ pc = "market_data"
    /\ now = OnDay(0, At(9, 30, 0, 0))
    /\ symbols \in {Bound(list) : list \in RequestLists}
    /\ model = FALSE
    /\ market_data = NoFunction
    /\ portfolio = EmptyDict
    /\ idx = 1
    /\ tradable_asked = {}
    /\ positions_asked = {}
    /\ decisions = NoFunction
    /\ orders = <<>>
    /\ snapshot_calls = NoFunction
    /\ reported = NoFunction
    /\ caught = {}
    /\ unpaced = FALSE
    /\ ClientIdle

MarketDataNext == FetchSnapshot \/ ReturnMarketData

SpecMarketData == MarketDataInit /\ [][MarketDataNext]_vars

\* main() from its first line: the startup steps, then the loop as written.
StartupInit ==
    /\ EngineIdle
    /\ pc = "start"
    /\ now = OnDay(0, At(9, 30, 0, 0))
    /\ symbols = Unbound
    /\ model = FALSE
    /\ market_data = NoFunction
    /\ portfolio = EmptyDict
    /\ idx = 1
    /\ tradable_asked = {}
    /\ positions_asked = {}
    /\ decisions = NoFunction
    /\ orders = <<>>
    /\ snapshot_calls = NoFunction
    /\ reported = NoFunction
    /\ caught = {}
    /\ unpaced = FALSE
    /\ ClientIdle

StartupNext ==
    \/ ConstructClients
    \/ GetAccountInfo
    \/ FetchAllSymbols
    \/ FatalExit
    \/ Next

SpecStartup == StartupInit /\ [][StartupNext]_vars

\* Any calls on one FutuClient, built with or without a trade password.
FutuInit ==
    /\ EngineIdle
    /\ LoopIdle
    /\ futu \in {FutuClient(password) : password \in BOOLEAN}
    /\ futu_trace = <<>>
    /\ LoggerIdle
    /\ OrdersIdle

FutuNext == FutuConnect \/ FutuDisconnect \/ FutuFetch \/ FutuPlaceOrder

SpecFutu == FutuInit /\ [][FutuNext]_vars

\* Any configure_logger and get_logger calls after quant.logger is imported.
LoggerInit ==
    /\ EngineIdle
    /\ LoopIdle
    /\ ClientIdle

LoggerNext == CallConfigureLogger \/ CallGetLogger

SpecLogger == LoggerInit /\ [][LoggerNext]_vars

\* Any order calls on a PaperTradingClient just built.
OrdersInit == EngineIdle /\ LoopIdle /\ ClientIdle

OrdersNext ==
    \/ buy_market_order
    \/ sell_market_order
    \/ buy_limit_order
    \/ sell_limit_order
    \/ buy_shorts
    \/ sell_shorts
    \/ buy_bracket_order
    \/ sell_bracket_order
    \/ buy_trailing_percent_order
    \/ sell_trailing_percent_order
    \/ buy_trailing_price_order
    \/ sell_trailing_price_order

SpecOrders == OrdersInit /\ [][OrdersNext]_vars

(***************************************************************************)
(* Properties of get_action, checked under SpecEngine.                     *)
(***************************************************************************)
Called == ret.done

\* the decision was derived from a value the policy returned
SignalDerived == Called /\ ret.consulted /\ ~predicted.raises

Triple(action, confidence, target_qty) ==
    /\ ret.action = action
    /\ ret.confidence = confidence
    /\ ret.target_qty = target_qty

\* the snapshot is a dict whose price is None, absent or 0
PriceMissing ==
    \/ call.snapshot.shape = "no_price_key"
    \/ /\ call.snapshot.shape \in {"dict", "bad_volume"}
       /\ call.snapshot.price \in {None, Some(0)}

\* C3 as claimed: for a signal-derived decision, s > 0.1 gives BUY with
\* target_qty >= current_position, s < -0.1 gives SELL with
\* 0 <= target_qty <= current_position, and -0.1 <= s <= 0.1 gives HOLD with
\* target_qty = current_position.
C3_Original ==
    SignalDerived =>
        LET s == predicted.signal
            pos == call.current_position
        IN  /\ s > 10 => ret.action = "BUY" /\ ret.target_qty >= pos
            /\ s < -10 =>
                  /\ ret.action = "SELL"
                  /\ 0 <= ret.target_qty
                  /\ ret.target_qty <= pos
            /\ (-10 <= s /\ s <= 10) =>
                  ret.action = "HOLD" /\ ret.target_qty = pos

\* C3 amended: as claimed, except that a SELL keeps target_qty at or below
\* current_position only when current_position >= 0; from a negative
\* current_position the clamp returns a target_qty of 0.
C3_Amended ==
    SignalDerived =>
        LET s == predicted.signal
            pos == call.current_position
        IN  /\ s > 10 => ret.action = "BUY" /\ ret.target_qty >= pos
            /\ s < -10 =>
                  /\ ret.action = "SELL"
                  /\ 0 <= ret.target_qty
                  /\ pos >= 0 => ret.target_qty <= pos
                  /\ pos < 0 => ret.target_qty = 0
            /\ (-10 <= s /\ s <= 10) =>
                  ret.action = "HOLD" /\ ret.target_qty = pos

\* a SELL from a short position: the clamp returns 0, above the position
C3_Witness ==
    /\ SignalDerived
    /\ predicted.signal = -60
    /\ call.current_position = -1
    /\ ret.action = "SELL"
    /\ ret.target_qty = 0

\* C4: DecisionEngine.get_action returns exactly (HOLD, 0.0, current_position)
\* when the price is None, absent or 0, for every current_position >= 0,
\* with or without a model, and does not call the policy.
C4_MissingPriceHolds ==
    (/\ Called
     /\ call.engine = "DecisionEngine"
     /\ PriceMissing
     /\ call.current_position >= 0) =>
        /\ Triple("HOLD", 0, call.current_position)
        /\ ~ret.consulted
        /\ ~ret.raised

\* a loaded model, a price of 0 and a held position: HOLD was returned
C4_Witness ==
    /\ Called
    /\ call.engine = "DecisionEngine"
    /\ call.model
    /\ call.snapshot.shape = "dict"
    /\ call.snapshot.price = Some(0)
    /\ call.current_position = 5
    /\ ret.action = "HOLD"

\* a fault inside the try block of the call
Fault ==
    \/ ret.consulted /\ predicted.raises
    \/ /\ call.engine = "DecisionEngine"
       /\ \/ call.snapshot.shape = "not_a_dict"
          \/ /\ call.snapshot.shape = "bad_volume"
             /\ call.model
             /\ ~PriceMissing

C6_Confidence ==
    SignalDerived =>
        LET s == predicted.signal
            m == IF s < 0 THEN -s ELSE s
        IN  /\ ret.confidence = IF 2 * m <= 100 THEN 2 * m ELSE 100
            /\ 0 <= ret.confidence /\ ret.confidence <= 100
            /\ ret.confidence = 100 <=> m >= 50

\* a SELL below saturation: s = -0.3 gives confidence 0.6
C6_Witness ==
    /\ SignalDerived
    /\ predicted.signal = -30
    /\ ret.action = "SELL"
    /\ ret.confidence = 60

\* k is Python's round() of n / d: the nearest integer, the even one on a tie
IsRounded(k, n, d) ==
    /\ 2 * (k * d - n) <= d
    /\ 2 * (n - k * d) <= d
    /\ (2 * (k * d - n) = d \/ 2 * (n - k * d) = d) => k % 2 = 0

\* C7: a signal-derived BUY has target_qty = current_position +
\* round(10 * confidence * s), a SELL has target_qty =
\* max(0, current_position - round(10 * confidence * |s|)), with confidence
\* min(1.0, 2|s|); s = 0.6 at position 5 gives (BUY, 1.0, 11).
C7_TargetQuantity ==
    SignalDerived =>
        LET s == predicted.signal
            m == IF s < 0 THEN -s ELSE s
            c == IF 2 * m <= 100 THEN 2 * m ELSE 100
            pos == call.current_position
        IN  /\ ret.action = "BUY" =>
                 IsRounded(ret.target_qty - pos, 10 * c * s, 10000)
            /\ ret.action = "SELL" =>
                 \E k \in 0 .. 10 :
                    /\ IsRounded(k, 10 * c * m, 10000)
                    /\ ret.target_qty = IF pos - k > 0 THEN pos - k ELSE 0
            /\ (s = 60 /\ pos = 5) => Triple("BUY", 100, 11)

\* the example of the claim: s = 0.6 at position 5
C7_Witness ==
    /\ SignalDerived
    /\ predicted.signal = 60
    /\ call.current_position = 5
    /\ ret.action = "BUY"

\* the decision is the mapping of the signal s
MatchesSignal(s) ==
    LET d == SignalDecision(s, call.current_position)
    IN  Triple(d.action, d.confidence, d.target_qty)

\* DecisionEngine decided with no model loaded and a usable price
FallbackUsed ==
    /\ Called
    /\ call.engine = "DecisionEngine"
    /\ ~call.model
    /\ call.snapshot.shape \in {"dict", "bad_volume"}
    /\ ~PriceMissing

C9_Original == Called => ret.target_qty >= 0

\* C9 amended: target_qty is never negative when current_position >= 0, and
\* a SELL never returns a negative target_qty; from a negative
\* current_position a BUY, a HOLD or a fault can return a negative one.
C9_Amended ==
    Called =>
        /\ call.current_position >= 0 => ret.target_qty >= 0
        /\ ret.action = "SELL" => ret.target_qty >= 0

\* a SELL sized above the position held: the clamp applies
C9_Witness ==
    /\ SignalDerived
    /\ ret.action = "SELL"
    /\ predicted.signal = -60
    /\ call.current_position = 2
    /\ ret.target_qty = 0

(***************************************************************************)
(* Properties of the trading loop.                                         *)
(***************************************************************************)
\* the quantity the loop computes for a decision: target - current for a
\* BUY, current - target for a SELL
Delta(d) ==
    IF d.action = "BUY" THEN d.target_qty - d.current_position
    ELSE IF d.action = "SELL" THEN d.current_position - d.target_qty
    ELSE 0

ClearsGate(d) ==
    /\ d.action \in {"BUY", "SELL"}
    /\ d.confidence > 70
    /\ Delta(d) > 0

OrdersOf(symbol) == {i \in 1 .. Len(orders) : orders[i].symbol = symbol}

\* C1: an order is submitted for a symbol only if its decision is a BUY or a
\* SELL with confidence strictly above 0.7 and a strictly positive delta; at
\* confidence 0.7, with a delta of zero or less, or on HOLD, nothing is
\* submitted for the symbol in the cycle.
C1_OrderOnlyThroughGate ==
    /\ \A i \in 1 .. Len(orders) :
          /\ orders[i].symbol \in DOMAIN decisions
          /\ ClearsGate(decisions[orders[i].symbol])
    /\ \A s \in DOMAIN decisions :
          (\/ decisions[s].action = "HOLD"
           \/ decisions[s].confidence <= 70
           \/ Delta(decisions[s]) <= 0) => OrdersOf(s) = {}

\* a BUY at confidence exactly 0.7 got no order, a SELL above the gate with
\* a delta of zero got none, and a third symbol got one
C1_Witness ==
    /\ DOMAIN decisions = {"AAPL", "MSFT", "GOOG"}
    /\ decisions["AAPL"].action = "BUY"
    /\ decisions["AAPL"].confidence = 70
    /\ decisions["AAPL"].target_qty > decisions["AAPL"].current_position
    /\ OrdersOf("AAPL") = {}
    /\ decisions["MSFT"].action = "SELL"
    /\ decisions["MSFT"].confidence = 100
    /\ OrdersOf("MSFT") = {}
    /\ OrdersOf("GOOG") /= {}

\* C2: a decision that clears the gate gets exactly one order in the cycle,
\* on the side of its action, sized target - current for a BUY and
\* current - target for a SELL, which is |target - current|; no symbol gets
\* more than one order in a cycle.
C2_OneOrderOfDelta ==
    /\ \A s \in DOMAIN decisions :
          ClearsGate(decisions[s]) =>
              /\ Cardinality(OrdersOf(s)) = 1
              /\ \A i \in OrdersOf(s) :
                    /\ orders[i].side = decisions[s].action
                    /\ orders[i].qty = Delta(decisions[s])
                    /\ orders[i].qty =
                          Abs(decisions[s].target_qty - decisions[s].current_position)
    /\ \A s \in Range(all_symbols) : Cardinality(OrdersOf(s)) <= 1

\* signal 0.6 on a flat position: BUY at confidence 1.0 for a target of 6,
\* and one BUY order for 6 shares
C2_Witness ==
    /\ "AAPL" \in DOMAIN decisions
    /\ decisions["AAPL"] =
          [action |-> "BUY", confidence |-> 100, target_qty |-> 6,
           current_position |-> 0]
    /\ \E i \in 1 .. Len(orders) :
          orders[i] = [symbol |-> "AAPL", side |-> "BUY", qty |-> 6]
    /\ Len(orders) = 2

\* an iteration that found the market open has run to its sleep
IterationEnded == pc \in {"cycle_sleep", "fault_sleep"}

\* C10 as claimed: an iteration that starts with the market open leaves the
\* waiting state, gathers a snapshot and a position for every symbol of its
\* list and obtains a decision for every symbol whose snapshot has a price.
C10_CycleGathersAndDecides ==
    IterationEnded =>
        /\ pc = "cycle_sleep"
        /\ symbols.bound
        /\ DOMAIN market_data = Range(symbols.list)
        /\ positions_asked = Range(symbols.list)
        /\ \A s \in Range(symbols.list) :
              market_data[s].price.some => s \in DOMAIN decisions

(***************************************************************************)
(* Properties of main() outside market hours, checked under Spec.          *)
(***************************************************************************)
\* the running iteration has called nothing, decided nothing, ordered nothing
NothingDone ==
    /\ tradable_asked = {}
    /\ snapshot_calls = NoFunction
    /\ positions_asked = {}
    /\ reported = NoFunction
    /\ decisions = NoFunction
    /\ orders = <<>>

\* C11: an iteration whose market-hours check is false makes no tradability,
\* snapshot or position call, obtains no decision and submits no order; it
\* goes to the closed-market sleep and from there back to the check.
C11_ClosedIterationIdles ==
    [][ /\ (pc = "loop" /\ ~is_market_open(now'))
            => (pc' = "closed_sleep" /\ NothingDone')
        /\ (pc = "closed_sleep") => (pc' = "loop" /\ NothingDone') ]_vars

\* a closed-market iteration on a Saturday has reached its sleep
C11_Witness ==
    /\ pc = "closed_sleep"
    /\ now.weekday = 5
    /\ ~is_market_open(now)
    /\ NothingDone

(***************************************************************************)
(* Properties of is_market_open, checked under SpecClock.                  *)
(***************************************************************************)
ClockAnswered == pc \in {"open", "not_open"}

\* Monday to Friday, from 09:30:00.000000 to 16:00:00.000000, both included
WithinTradingHours(t) ==
    /\ t.weekday <= LastWeekday
    /\ DatetimeLE(At(MARKET_OPEN_HOUR, MARKET_OPEN_MINUTE, 0, 0), t)
    /\ DatetimeLE(t, At(MARKET_CLOSE_HOUR, MARKET_CLOSE_MINUTE, 0, 0))

\* C12: is_market_open answers true exactly at the instants t of a weekday
\* with 09:30 <= t <= 16:00, both bounds included.
C12_OpenIffWithinHours ==
    ClockAnswered => (pc = "open" <=> WithinTradingHours(now))

\* the four instants the claim names: Monday 10:00 and 16:00 open, Monday
\* 08:00 and Saturday 10:00 closed
C12_NamedInstants ==
    ClockAnswered =>
        /\ now = OnDay(0, At(10, 0, 0, 0)) => pc = "open"
        /\ now = OnDay(0, At(16, 0, 0, 0)) => pc = "open"
        /\ now = OnDay(0, At(8, 0, 0, 0)) => pc = "not_open"
        /\ now = OnDay(5, At(10, 0, 0, 0)) => pc = "not_open"

(***************************************************************************)
(* Properties of the loop body, checked under SpecCycle.                   *)
(***************************************************************************)
Requested == Range(symbols.list)

Priced(s) == s \in DOMAIN market_data /\ market_data[s].price.some

InBatch == pc \in {"market_data", "positions", "decide"}

\* C13: an exception raised for one symbol while collecting, deciding or
\* submitting is caught and logged in that symbol's turn, and the loop goes
\* on to the next symbol: at the end of the cycle every symbol was asked for
\* its snapshot and its position, and every priced symbol has a decision.
C13_PerSymbolIsolation ==
    /\ [](pc = "cycle_sleep" =>
            \A s \in Requested :
                /\ s \in DOMAIN snapshot_calls
                /\ s \in positions_asked
                /\ Priced(s) => s \in DOMAIN decisions)
    /\ [][(InBatch /\ caught' /= caught) => (pc' = pc /\ idx' = idx + 1)]_vars

\* a batch of three whose second snapshot call raised: the first and the
\* third symbol have their decisions
C13_Witness ==
    /\ pc = "cycle_sleep"
    /\ symbols.list = all_symbols
    /\ snapshot_calls["MSFT"] = "raises"
    /\ Caught("market_data", "MSFT") \in caught
    /\ DOMAIN decisions = {"AAPL", "GOOG"}

C15_StagesInOrder ==
    /\ positions_asked /= {} =>
          (pc /= "market_data" /\ DOMAIN snapshot_calls = Requested)
    /\ decisions /= NoFunction =>
          (pc \notin {"market_data", "positions"} /\ positions_asked = Requested)

\* three symbols, all asked for snapshot and position, and the first
\* decision just obtained
C15_Witness ==
    /\ pc = "decide"
    /\ symbols.list = all_symbols
    /\ DOMAIN snapshot_calls = Requested
    /\ positions_asked = Requested
    /\ DOMAIN decisions = {"AAPL"}

(***************************************************************************)
(* Properties of get_market_data, checked under SpecMarketData.            *)
(***************************************************************************)
\* a step that calls get_symbol_details or get_positions
ProviderCallStep == pc \in {"market_data", "positions"} /\ idx' = idx + 1

\* C16: a provider call is issued only after the provider call before it was
\* followed by a pacing delay.
C16_ProviderCallsPaced == [][ProviderCallStep => ~unpaced]_vars

(***************************************************************************)
(* Properties of the handler of the loop, checked under Spec.              *)
(***************************************************************************)
InLoop == pc \in {"loop", "closed_sleep", "filter", "fault_sleep"}

LoopFault == Caught("loop", "")

\* C17: an exception that escapes the per-symbol handlers is caught and
\* logged by the handler of the loop, which sleeps and goes back to the
\* market-hours check; main() never leaves the loop because of it.
C17_LoopSurvivesFault ==
    /\ []InLoop
    /\ [][(pc = "filter" /\ ~symbols.bound)
             => (pc' = "fault_sleep" /\ LoopFault \in caught')]_vars
    /\ [][pc = "fault_sleep" => (pc' = "loop" /\ ~unpaced')]_vars

\* the loop is back at its market-hours check after a fault was caught
C17_Witness == pc = "loop" /\ LoopFault \in caught

(***************************************************************************)
(* Properties of the symbol list, checked under SpecCycle.                 *)
(***************************************************************************)
\* a keeps some of the elements of b, in the order of b
IsSubSeq(a, b) == a = SelectSeq(b, LAMBDA s : s \in Range(a))

ReportedQty(s) ==
    IF s \in DOMAIN reported /\ reported[s].some THEN reported[s].v ELSE 0

AllNone(entry) ==
    /\ entry.price = None
    /\ entry.volume = None
    /\ entry.market_cap = None
    /\ entry.name = NoName

\* C20: get_market_data does not raise; it returns an entry for every
\* requested symbol and for no other; the entry of a symbol whose provider
\* call raised or returned no results has price, volume, market_cap and name
\* all None.
C20_EntryForEverySymbol ==
    /\ pc \in {"market_data", "returned"}
    /\ \A s \in DOMAIN snapshot_calls :
          /\ s \in DOMAIN market_data
          /\ snapshot_calls[s] \in {"raises", "no_results"} => AllNone(market_data[s])
    /\ DOMAIN market_data \subseteq Requested
    /\ pc = "returned" => DOMAIN market_data = Requested

\* three symbols requested: the first call raised, the second had no
\* results, the third gave a quote
C20_Witness ==
    /\ pc = "returned"
    /\ symbols.list = all_symbols
    /\ snapshot_calls["AAPL"] = "raises"
    /\ snapshot_calls["MSFT"] = "no_results"
    /\ snapshot_calls["GOOG"] = "quote"
    /\ AllNone(market_data["AAPL"])
    /\ AllNone(market_data["MSFT"])
    /\ ~AllNone(market_data["GOOG"])

(***************************************************************************)
(* Properties of a DecisionEngine built with defaults, checked under       *)
(* SpecEngine.                                                             *)
(***************************************************************************)
\* get_action("AAPL", {"price": 150.0, "volume": 1000000}, 5) on a
\* DecisionEngine that found no model file at its default path
DefaultEngineTestCall ==
    /\ call.engine = "DecisionEngine"
    /\ ~call.model
    /\ call.snapshot = [shape |-> "dict", price |-> Some(150), volume |-> Some(1000000)]
    /\ call.current_position = 5

\* C21: a DecisionEngine built with defaults, asked about price 150, volume
\* 1,000,000 and position 5, answers BUY with confidence above 0.5 (50
\* hundredths) and a target quantity above the position.
C21_DefaultEngineBuys ==
    (Called /\ DefaultEngineTestCall) =>
        /\ ret.action = "BUY"
        /\ ret.confidence > 50
        /\ ret.target_qty > call.current_position

(***************************************************************************)
(* Properties of the startup of main(), checked under SpecStartup.         *)
(***************************************************************************)
BeforeLoop == pc \in {"start", "account", "universe", "fatal"}

MainFault == Caught("main", "")

\* C22: a fault raised while the clients are built, the account info is
\* fetched or the symbol list is fetched is logged by the handler of main(),
\* once, and main() returns: the loop is not entered before or after, and
\* no call, decision or order is made.
C22_StartupFaultIsFatal ==
    /\ [](pc \in {"fatal", "exited"} => NothingDone)
    /\ [][pc = "fatal" => (pc' = "exited" /\ MainFault \notin caught /\ MainFault \in caught')]_vars
    /\ [][pc' = "fatal" => pc \in {"start", "account", "universe"}]_vars
    /\ [][pc = "exited" => FALSE]_vars

\* main() has returned after a startup fault, its handler's record logged
C22_Witness == pc = "exited" /\ MainFault \in caught /\ ~symbols.bound

(***************************************************************************)
(* Properties of FutuClient, checked under SpecFutu.                       *)
(***************************************************************************)
CallsOf(name) == {i \in 1 .. Len(futu_trace) : futu_trace[i].call = name}

\* C23: place_order does not raise and returns a result record: without a
\* trade context, success False with 'Trade context not initialized' and
\* nothing sent; on a non-zero code, success False with the server's data;
\* when the placement raises, success False with the exception text;
\* otherwise success True with the order id.
C23_PlaceOrderResult ==
    \A i \in CallsOf("place_order") :
        LET e == futu_trace[i]
        IN  /\ ~e.ret.raised
            /\ e.ret.success \in {"true", "false"}
            /\ IF e.before.trade_context = "none"
               THEN /\ e.ret.success = "false"
                    /\ e.ret.error = "Trade context not initialized"
                    /\ e.ops = <<>>
               ELSE /\ Len(e.ops) = 1
                    /\ e.ops[1].op = "place_order"
                    /\ e.outcome = "nonzero" =>
                          (e.ret.success = "false" /\ e.ret.error = "data")
                    /\ e.outcome = "raises" =>
                          (e.ret.success = "false" /\ e.ret.error = "str(e)")
                    /\ e.outcome = "zero" =>
                          (e.ret.success = "true" /\ e.ret.order_id = "order_id")

\* an order refused for want of a context, then, after connect, one that
\* raised and one that was placed
C23_Witness ==
    /\ Len(futu_trace) = 3
    /\ futu_trace[1].call = "place_order"
    /\ futu_trace[1].ret.error = "Trade context not initialized"
    /\ futu_trace[2].call = "connect"
    /\ futu_trace[3].call = "place_order"
    /\ futu_trace[3].ret.success = "true"

\* the list names none of the subtypes fetch_real_time_data serves
Unsupported(subtype) ==
    /\ subtype.given
    /\ subtype.list /= <<>>
    /\ Range(subtype.list) \cap ({"QUOTE", "ORDER_BOOK"} \cup KLineSubtypes) = {}

\* C24: fetch_real_time_data returns an empty frame and issues nothing when
\* there is no quote context; otherwise subscribe is its first operation,
\* and when subscribe returns a non-zero code or the subtype is unsupported
\* it returns an empty frame and fetches nothing.
C24_SubscribeBeforeFetch ==
    \A i \in CallsOf("fetch_real_time_data") :
        LET e == futu_trace[i]
        IN  IF e.before.quote_context = "none"
            THEN e.ops = <<>> /\ e.ret.frame = "empty"
            ELSE /\ Len(e.ops) >= 1
                 /\ e.ops[1].op = "subscribe"
                 /\ \A j \in 2 .. Len(e.ops) : e.ops[j].op /= "subscribe"
                 /\ (e.outcome = "nonzero" \/ Unsupported(e.subtype)) =>
                       (Len(e.ops) = 1 /\ e.ret.frame = "empty")

\* after connect, a fetch whose subscription was refused and one that
\* subscribed and got its data
C24_Witness ==
    /\ Len(futu_trace) = 3
    /\ futu_trace[1].call = "connect"
    /\ futu_trace[2].call = "fetch_real_time_data"
    /\ futu_trace[2].outcome = "nonzero"
    /\ Len(futu_trace[2].ops) = 1
    /\ futu_trace[3].call = "fetch_real_time_data"
    /\ futu_trace[3].ret.frame = "data"
    /\ Len(futu_trace[3].ops) = 2

\* C30: no operation is issued on a context that disconnect() has closed
\* (connect builds a new context and issues nothing on the old one).
C30_NoUseAfterDisconnect ==
    \A i \in 1 .. Len(futu_trace) :
        \A j \in 1 .. Len(futu_trace[i].ops) :
            LET o == futu_trace[i].ops[j]
            IN  o.op /= "open" => o.state /= "closed"

(***************************************************************************)
(* Properties of configure_logger and get_logger, checked under            *)
(* SpecLogger.                                                             *)
(***************************************************************************)
HandlersOfKind(lg, kind) ==
    {i \in 1 .. Len(lg.handlers) : lg.handlers[i].kind = kind}

OneConsoleOneFile(lg) ==
    /\ Len(lg.handlers) = 2
    /\ Cardinality(HandlersOfKind(lg, "console")) = 1
    /\ Cardinality(HandlersOfKind(lg, "file")) = 1

\* C25: every configured name maps to the one logger of that name, which
\* carries one console handler and one file handler; once a name is
\* configured its logger is never changed, and a call for it returns that
\* logger whatever its arguments.
C25_ConfigureLoggerIdempotent ==
    /\ [](\A n \in DOMAIN configured_loggers :
            /\ configured_loggers[n] = n
            /\ n \in DOMAIN logging_registry
            /\ OneConsoleOneFile(logging_registry[n]))
    /\ [][\A n \in DOMAIN configured_loggers :
            /\ n \in DOMAIN configured_loggers'
            /\ configured_loggers'[n] = configured_loggers[n]
            /\ logging_registry'[n] = logging_registry[n]]_vars
    /\ [][Len(logger_trace') > Len(logger_trace) =>
            LET e == logger_trace'[Len(logger_trace')]
            IN  e.name \in DOMAIN configured_loggers =>
                   (~e.raised /\ e.logger = configured_loggers[e.name])]_vars

\* a first call whose file handler failed, a second that configured the
\* name, and a third with other arguments that got the same logger back
C25_Witness ==
    /\ Len(logger_trace) = 3
    /\ \A i \in 1 .. 3 : logger_trace[i].name = "main"
    /\ logger_trace[1].raised
    /\ logger_trace[2].logger = "main"
    /\ logger_trace[3].fn = "get_logger"
    /\ logger_trace[3].args /= logger_trace[2].args
    /\ logger_trace[3].logger = "main"
    /\ logging_registry["main"].level = logger_trace[2].args.log_level
    /\ OneConsoleOneFile(logging_registry["main"])

(***************************************************************************)
(* The fallback strategy against the confidence gate of the loop, checked  *)
(* under SpecCycle.                                                        *)
(***************************************************************************)
\* the call of the loop for a symbol, had its position been qty
FallbackCall(symbol, qty) ==
    [engine |-> "DecisionEngine", model |-> FALSE,
     snapshot |-> market_data[symbol], current_position |-> qty]

\* the orders the loop submits for the answer to call c
OrdersOfCall(symbol, c) ==
    LET d == DecisionEngine_get_action(c, NoPrediction)
    IN  OrderFor(symbol, d.action, d.confidence, d.target_qty,
                 c.current_position)

\* C26: with no policy model loaded no order is ever submitted: every
\* decision taken has confidence at most 0.6, and so has the answer of the
\* fallback strategy to each snapshot fetched whatever the position handed
\* over with it, for which the loop submits nothing.
C26_FallbackNeverTrades ==
    ~model =>
        /\ orders = <<>>
        /\ \A s \in DOMAIN decisions :
              decisions[s].confidence <= FallbackSellConfidence
        /\ \A s \in DOMAIN market_data, qty \in Positions :
              /\ DecisionEngine_get_action(FallbackCall(s, qty), NoPrediction)
                    .confidence <= FallbackSellConfidence
              /\ OrdersOfCall(s, FallbackCall(s, qty)) = <<>>

\* a cycle without a model that decided to BUY and submitted nothing
C26_Witness ==
    /\ ~model
    /\ pc = "cycle_sleep"
    /\ \E s \in DOMAIN decisions : decisions[s].action = "BUY"
    /\ orders = <<>>

(***************************************************************************)
(* The SELL orders that follow from a decision, checked under SpecEngine:  *)
(* the order rule of the loop applied to the answer of the call and to the *)
(* position the call was given.                                            *)
(***************************************************************************)
OrdersOfAnswer ==
    IF ret.done /\ ~ret.raised /\ call.engine = "DecisionEngine"
    THEN OrderFor("AAPL", ret.action, ret.confidence, ret.target_qty,
                  call.current_position)
    ELSE <<>>

SellOrders == {o \in Range(OrdersOfAnswer) : o.side = "SELL"}

\* C27: a SELL order has a quantity above 0 and at most the current
\* position the decision was asked with; with a current position of 0 or
\* less there is no SELL order.
C27_SellWithinPosition ==
    /\ \A o \in SellOrders : o.qty > 0 /\ o.qty <= call.current_position
    /\ call.current_position <= 0 => SellOrders = {}

\* a SELL order for part of the position
C27_Witness ==
    \E o \in SellOrders :
        /\ o.qty < call.current_position
        /\ ret.target_qty > 0

\* a SELL order for all of the position, the target clamped at 0
C27_WitnessClamped ==
    \E o \in SellOrders :
        /\ o.qty = call.current_position
        /\ ret.target_qty = 0

(***************************************************************************)
(* Properties of the order requests of PaperTradingClient, checked under   *)
(* SpecOrders.                                                             *)
(***************************************************************************)
BuiltRequests ==
    {i \in 1 .. Len(order_requests) : order_requests[i].request.built}

\* "00000000-0000-0000-0000-000000000000"
ZeroUUID ==
    [i \in 1 .. 36 |-> IF i \in {9, 14, 19, 24} THEN "-" ELSE "0"]

\* C28: every request built carries the all-zero UUID as client_order_id,
\* so any two requests of a run carry the same one.
C28_SameClientOrderId ==
    /\ \A i \in BuiltRequests :
          order_requests[i].request.client_order_id = ZeroUUID
    /\ \A i, j \in BuiltRequests :
          order_requests[i].request.client_order_id =
             order_requests[j].request.client_order_id

\* two requests that differ in class, symbol, side and quantity, the first
\* submitted, and the same client_order_id on both
C28_Witness ==
    /\ Len(order_requests) = 2
    /\ BuiltRequests = {1, 2}
    /\ order_requests[1].ret = "order"
    /\ order_requests[1].request.class /= order_requests[2].request.class
    /\ order_requests[1].request.symbol /= order_requests[2].request.symbol
    /\ order_requests[1].request.side /= order_requests[2].request.side
    /\ order_requests[1].request.qty /= order_requests[2].request.qty
    /\ order_requests[1].request.client_order_id =
          order_requests[2].request.client_order_id

(***************************************************************************)
(* DecisionEngine.get_action against FinRLClient.get_action, checked       *)
(* under SpecEngine: both are evaluated on the arguments of the call made  *)
(* and on what the policy answered.                                        *)
(***************************************************************************)
TripleOf(d) == <<d.action, d.confidence, d.target_qty>>

\* the price can be read from the snapshot and is neither None nor 0
PricePresent(sn) == sn.shape /= "not_a_dict" /\ ~Falsy(get_price(sn))

\* C29: with a policy loaded and a price present, DecisionEngine.get_action
\* and FinRLClient.get_action return the same (action, confidence,
\* target_quantity) for the same snapshot, position and policy output.
C29_EnginesAgree ==
    (Called /\ call.model /\ PricePresent(call.snapshot)) =>
        TripleOf(DecisionEngine_get_action(call, predicted)) =
           TripleOf(FinRLClient_get_action(call, predicted))

\* the same, for snapshots whose volume is a number or None
C29_EnginesAgreeOnNumericVolume ==
    (Called /\ call.model /\ PricePresent(call.snapshot)
        /\ call.snapshot.shape /= "bad_volume") =>
        TripleOf(DecisionEngine_get_action(call, predicted)) =
           TripleOf(FinRLClient_get_action(call, predicted))

====
